---- MODULE Spec2Model ----
(***************************************************************************)
(* A model of @chelonia/serdes (src/src/index.ts): the serializer /        *)
(* deserializer pair, the custom-type registry and the function bridge     *)
(* over MessageChannel.                                                    *)
(*                                                                         *)
(* JavaScript values are tagged tuples.  Objects that have identity and    *)
(* mutable state the codec touches (Error) live in a heap and are referred *)
(* to by index; arrays and plain objects are trees.                        *)
(***************************************************************************)
EXTENDS Integers, Sequences, FiniteSets, TLC

\* ------------------------------------------------------------------ values
Null == <<"null">>
Undef == <<"undef">>
\* an array index that is not an own property (a deleted element)
Hole == <<"hole">>
Bool(b) == <<"bool", b>>
Num(n) == <<"num", n>>
Str(s) == <<"str", s>>
\* items: sequence of values
Arr(items) == <<"arr", items>>
\* props: sequence of <<key, value>>, own enumerable properties in order
Obj(props) == <<"obj", props>>
\* entries: sequence of <<key, value>> in insertion order
MapV(entries) == <<"Map", entries>>
\* members: sequence of values in insertion order
SetV(members) == <<"Set", members>>
\* an instance of class ctor; payload is what its serialize hook returns
Custom(ctor, payload) == <<"custom", ctor, payload>>
\* an Error object: index into the heap
Err(id) == <<"err", id>>
\* endpoint n (1 or 2) of MessageChannel c
Port(c, n) == <<"port", c, n>>
\* a user function
Fn(f) == <<"fn", f>>
\* the function the deserializer builds around endpoint mp
Proxy(mp) == <<"proxy", mp>>

Kind(v) == v[1]
IsArr(v) == Kind(v) = "arr"
IsObj(v) == Kind(v) = "obj"
IsErr(v) == Kind(v) = "err"
IsPort(v) == Kind(v) = "port"
IsStr(v) == Kind(v) = "str"
IsNum(v) == Kind(v) = "num"
IsCallable(v) == Kind(v) \in {"fn", "proxy"}

\* null, booleans, numbers and strings: a replacer, a reviver and a deep copy
\* return them as they are
IsPrimitive(v) == Kind(v) \in {"null", "bool", "num", "str"}
AllPrimitive(items) == \A i \in DOMAIN items : IsPrimitive(items[i])
\* the same for the values of properties
AllPrimitiveProps(props) == \A i \in DOMAIN props : IsPrimitive(props[i][2])

\* JavaScript truthiness (`if (value)`, `!value`)
Truthy(v) == ~(v \in {Null, Undef, Hole, Bool(FALSE), Num(0), Str("")})

\* value[i] for a JavaScript index i >= 0: a hole or a missing index reads undefined
At(v, i) ==
  IF IsArr(v) /\ i + 1 <= Len(v[2]) /\ v[2][i + 1] # Hole THEN v[2][i + 1] ELSE Undef

\* the sentinel and the tagged arrays
Sentinel == Str("_")
Tagged(kind, rest) == Arr(<<Sentinel, Str(kind)>> \o rest)

\* ------------------------------------------------------ custom classes
\* Classes an application may define.  T1 and T2 share the tag "T".
Ctors == {"T1", "T2", "U1"}
\* Other things an application may pass to deserializer.register: NoTag is a
\* class whose tag is not a string, NoHook a class with tag "U" and no
\* reconstruct hook, NotFn a plain object with tag "T" and a hook.
RegisterArgs == Ctors \cup {"NoTag", "NoHook", "NotFn"}
Tags == {"T", "U"}
\* ctor[serdesTagSymbol]
CtorTag(ctor) ==
  CASE ctor \in {"T1", "T2", "NotFn"} -> "T"
    [] ctor \in {"U1", "NoHook"} -> "U"
    [] OTHER -> "7"
\* typeof ctor === 'function'
IsFunction(ctor) == ctor # "NotFn"
\* typeof ctor[serdesTagSymbol] === 'string'
HasStringTag(ctor) == ctor # "NoTag"
\* typeof ctor[serdesDeserializeSymbol] === 'function'
HasDeserializeHook(ctor) == ctor # "NoHook"
\* ctor[serdesSerializeSymbol](instance)
SerializeHook(instance) == instance[3]
\* ctor[serdesDeserializeSymbol].bind(ctor)(payload)
DeserializeHook(ctor, payload) == Custom(ctor, payload)

\* ---------------------------------------------------------------- heap
\* heap: sequence of Error objects [name, msg, cause]; cause = Undef when absent
NewError(heap, name, msg) == Append(heap, [name |-> name, msg |-> msg, cause |-> Undef])

\* ---------------------------------------------------------- serializer
\* line 50: undefined is encoded as ['_', '_']
EncodeUndefined == Tagged("_", <<>>)

\* line 57: ['_', '_', ...value]; the spread reads holes as undefined
SpreadItems(items) == [i \in DOMAIN items |-> IF items[i] = Hole THEN Undef ELSE items[i]]
\* (faulty variant: the array is left as it is)
EscapeNothing(items) == SpreadItems(items)
EscapeArray(items) == <<Sentinel, Sentinel>> \o SpreadItems(items)

\* line 62: Array.from(value.entries())
MapEntries(entries) == Arr([i \in DOMAIN entries |-> Arr(<<entries[i][1], entries[i][2]>>)])

\* lines 25-28: rawResult marks an array as the encoder's own output; the
\* mark lasts for the call (rawResultSet) and is gone from the JSON text
rawResult(obj) == <<"raw", obj[2]>>
IsRaw(v) == Kind(v) = "raw"

\* lines 73, 90, 96: ['_', '_ref', pos]
RefTag(pos) == Tagged("_ref", <<Num(pos)>>)

\* line 83: ['_', '_err', ['_', '_ref', pos], value.name]
ErrTag(pos, name) == rawResult(Tagged("_err", <<rawResult(RefTag(pos)), Str(name)>>))

RECURSIVE serializer(_, _, _)
RECURSIVE SerReplacer(_, _)
RECURSIVE SerElements(_, _)
RECURSIVE SerProps(_, _)

\* lines 76-84: the Error branch.  The cause is replaced, on the Error
\* object itself, by the data of a nested serializer call; that call's
\* transferables and revokables are not kept.
ReplaceError(value, s) ==
  LET id == value[2]
      pos == Len(s.verbatim)
      s1 == [s EXCEPT !.verbatim = Append(@, value)]
      nested == serializer(s1.heap[id].cause, s1.heap, s1.channels)
      s2 == IF Truthy(s1.heap[id].cause)
            THEN [s1 EXCEPT !.heap = [nested.heap EXCEPT ![id].cause = nested.data],
                            !.channels = nested.channels]
            ELSE s1
  IN [v |-> ErrTag(pos, s2.heap[id].name), s |-> s2]

\* lines 86-91: a MessagePort goes to the verbatim table and is transferred
ReplacePort(value, s) ==
  [v |-> rawResult(RefTag(Len(s.verbatim))),
   s |-> [s EXCEPT !.verbatim = Append(@, value),
                   !.transferables = @ \cup {value}]]

\* lines 100-119: a function gets a fresh MessageChannel; port1 keeps the
\* handler that calls the function, port2 travels in the '_fn' tag
ReplaceFunction(value, s) ==
  LET c == Len(s.channels) + 1
  IN [v |-> rawResult(Tagged("_fn", <<Port(c, 2)>>)),
      s |-> [s EXCEPT !.channels = Append(@, <<"fn", value>>),
                      !.transferables = @ \cup {Port(c, 2)},
                      !.revokables = @ \cup {Port(c, 1)}]]

\* lines 46-126: what the replacer returns for one value (s threads
\* verbatim, the two sets, the heap and the channels through the traversal)
Replace(value, s) ==
  CASE IsRaw(value) -> [v |-> value, s |-> s]
    [] value = Undef \/ value = Hole -> [v |-> rawResult(EncodeUndefined), s |-> s]
    [] value # Undef /\ value # Hole /\ ~Truthy(value) -> [v |-> value, s |-> s]
    [] IsArr(value) /\ At(value, 0) = Sentinel ->
         [v |-> rawResult(Arr(EscapeArray(value[2]))), s |-> s]
    [] Kind(value) = "Map" ->
         [v |-> rawResult(Tagged("Map", <<MapEntries(value[2])>>)), s |-> s]
    [] Kind(value) = "Set" ->
         [v |-> rawResult(Tagged("Set", <<Arr(value[2])>>)), s |-> s]
    [] IsErr(value) -> ReplaceError(value, s)
    [] IsPort(value) -> ReplacePort(value, s)
    [] IsCallable(value) -> ReplaceFunction(value, s)
    [] Kind(value) = "custom" ->
         [v |-> rawResult(Tagged("_custom",
                   <<Str(CtorTag(value[2])), SerializeHook(value)>>)), s |-> s]
    [] OTHER -> [v |-> value, s |-> s]

\* JSON.stringify of an array: the replacer is applied to each element in
\* index order
SerElements(items, s) ==
  IF AllPrimitive(items) THEN [v |-> items, s |-> s]
  ELSE LET h == SerReplacer(Head(items), s)
           t == SerElements(Tail(items), h.s)
       IN [v |-> <<h.v>> \o t.v, s |-> t.s]

\* JSON.stringify of a plain object: the replacer is applied to each own
\* property in order
SerProps(props, s) ==
  IF AllPrimitiveProps(props) THEN [v |-> props, s |-> s]
  ELSE LET h == SerReplacer(Head(props)[2], s)
           t == SerProps(Tail(props), h.s)
       IN [v |-> << <<Head(props)[1], h.v>> >> \o t.v, s |-> t.s]

\* line 46: JSON.stringify(data, replacer) for one value: the replacer, then
\* the walk of what it returned.  The result is the JSON tree.
SerReplacer(value, s) ==
  LET r == Replace(value, s)
  IN CASE IsRaw(r.v) \/ IsArr(r.v) ->
            LET c == SerElements(r.v[2], r.s) IN [v |-> Arr(c.v), s |-> c.s]
       [] IsObj(r.v) ->
            LET c == SerProps(r.v[2], r.s) IN [v |-> Obj(c.v), s |-> c.s]
       [] OTHER -> r

\* verbatim[value[2]]
VerbatimAt(verbatim, idx) ==
  IF IsNum(idx) /\ idx[2] >= 0 /\ idx[2] < Len(verbatim) THEN verbatim[idx[2] + 1] ELSE Undef

\* JSON.parse's walk: a property whose revived value is undefined is deleted
DeleteUndefItems(items) == [i \in DOMAIN items |-> IF items[i] = Undef THEN Hole ELSE items[i]]
DeleteUndefProps(props) == SelectSeq(props, LAMBDA p : p[2] # Undef)

RECURSIVE SerReviver(_, _)
RECURSIVE SerReviveItems(_, _)
RECURSIVE SerReviveProps(_, _)

SerReviveItems(items, verbatim) ==
  IF AllPrimitive(items) THEN items
  ELSE <<SerReviver(Head(items), verbatim)>> \o SerReviveItems(Tail(items), verbatim)

SerReviveProps(props, verbatim) ==
  IF AllPrimitiveProps(props) THEN props
  ELSE << <<Head(props)[1], SerReviver(Head(props)[2], verbatim)>> >>
         \o SerReviveProps(Tail(props), verbatim)

\* lines 126-133: the reviver of the serializer undoes the '_ref' tags
SerReviver(value, verbatim) ==
  LET v == CASE IsArr(value) -> Arr(DeleteUndefItems(SerReviveItems(value[2], verbatim)))
             [] IsObj(value) -> Obj(DeleteUndefProps(SerReviveProps(value[2], verbatim)))
             [] OTHER -> value
  IN IF IsArr(v) /\ At(v, 0) = Sentinel /\ At(v, 1) = Str("_ref")
     THEN VerbatimAt(verbatim, At(v, 2))
     ELSE v

\* lines 35-140: serializer(data), with the Error heap and the channels
\* created so far passed in and out
serializer(data, heap, channels) ==
  LET s0 == [heap |-> heap, channels |-> channels, verbatim |-> <<>>,
             transferables |-> {}, revokables |-> {}]
      r == SerReplacer(data, s0)
  IN [data |-> SerReviver(r.v, r.s.verbatim),
      transferables |-> r.s.transferables,
      revokables |-> r.s.revokables,
      heap |-> r.s.heap,
      channels |-> r.s.channels]

\* --------------------------------------------------------- deserializer
\* lines 142-143: deserializerTable maps a tag to the reconstruct hook of the
\* registered constructor ("none": no entry)
NoEntry == "none"
EmptyTable == [t \in Tags |-> NoEntry]

\* (faulty variant: the entry is written without the three checks)
registerUnchecked(table, ctor) ==
  IF CtorTag(ctor) \in Tags THEN [table EXCEPT ![CtorTag(ctor)] = ctor] ELSE table
\* lines 221-225: deserializer.register(ctor)
register(table, ctor) ==
  IF IsFunction(ctor) /\ HasStringTag(ctor) /\ HasDeserializeHook(ctor)
  THEN [table EXCEPT ![CtorTag(ctor)] = ctor]
  ELSE table

\* a thrown Error is a fresh Error object
Throw(heap, name, msg) ==
  [ok |-> FALSE, v |-> Err(Len(heap) + 1), heap |-> NewError(heap, name, msg)]
Return(v, heap) == [ok |-> TRUE, v |-> v, heap |-> heap]

\* objects the first pass moves to the verbatim table (line 152): not an
\* array, not a plain object
IsExotic(v) == Kind(v) \in {"err", "port", "Map", "Set", "custom"}
\* what JSON.stringify cannot write: null in an array, omitted in an object
IsUnwritable(v) == v = Undef \/ v = Hole \/ IsCallable(v)

RECURSIVE DesReplacer(_, _)
RECURSIVE DesElements(_, _)
RECURSIVE DesProps(_, _)

DesElements(items, verbatim) ==
  IF AllPrimitive(items) THEN [v |-> items, verbatim |-> verbatim]
  ELSE LET h == IF IsUnwritable(Head(items))
                THEN [v |-> Null, verbatim |-> verbatim]
                ELSE DesReplacer(Head(items), verbatim)
           t == DesElements(Tail(items), h.verbatim)
       IN [v |-> <<h.v>> \o t.v, verbatim |-> t.verbatim]

DesProps(props, verbatim) ==
  IF AllPrimitiveProps(props) THEN [v |-> props, verbatim |-> verbatim]
  ELSE IF IsUnwritable(Head(props)[2]) THEN DesProps(Tail(props), verbatim)
  ELSE LET h == DesReplacer(Head(props)[2], verbatim)
           t == DesProps(Tail(props), h.verbatim)
       IN [v |-> << <<Head(props)[1], h.v>> >> \o t.v, verbatim |-> t.verbatim]

\* lines 151-158: the replacer of the deserializer and JSON.stringify's walk
DesReplacer(value, verbatim) ==
  CASE IsExotic(value) ->
         [v |-> RefTag(Len(verbatim)), verbatim |-> Append(verbatim, value)]
    [] IsArr(value) ->
         LET r == DesElements(value[2], verbatim)
         IN [v |-> Arr(r.v), verbatim |-> r.verbatim]
    [] IsObj(value) ->
         LET r == DesProps(value[2], verbatim)
         IN [v |-> Obj(r.v), verbatim |-> r.verbatim]
    [] OTHER -> [v |-> value, verbatim |-> verbatim]

\* lines 161-168: case '_'
UnescapeArray(items) == IF Len(items) >= 3 THEN Arr(SubSeq(items, 3, Len(items))) ELSE Undef

\* SameValueZero for Map keys and Set members: decoded arrays and objects
\* are fresh, so only primitives and references can coincide
SameValueZero(a, b) == a = b /\ Kind(a) \notin {"arr", "obj", "Map", "Set", "custom"}

RECURSIVE MapInsertAll(_, _)
\* Map.prototype.set for each entry of the iterable, in order
MapInsertAll(entries, acc) ==
  IF Len(entries) = 0 THEN acc
  ELSE LET k == At(Head(entries), 0)
           v == At(Head(entries), 1)
           hit == {i \in DOMAIN acc : SameValueZero(acc[i][1], k)}
       IN MapInsertAll(Tail(entries),
            IF hit = {} THEN Append(acc, <<k, v>>)
            ELSE [i \in DOMAIN acc |-> IF i \in hit THEN <<acc[i][1], v>> ELSE acc[i]])

RECURSIVE SetInsertAll(_, _)
SetInsertAll(members, acc) ==
  IF Len(members) = 0 THEN acc
  ELSE LET m == IF Head(members) = Hole THEN Undef ELSE Head(members)
       IN SetInsertAll(Tail(members),
            IF \E i \in DOMAIN acc : SameValueZero(acc[i], m) THEN acc ELSE Append(acc, m))

\* line 171: new Map(value[2])
NewMap(x, heap) ==
  CASE x \in {Undef, Null} -> Return(MapV(<<>>), heap)
    [] IsArr(x) /\ (\A i \in DOMAIN x[2] : IsArr(x[2][i])) ->
         Return(MapV(MapInsertAll(x[2], <<>>)), heap)
    [] OTHER -> Throw(heap, "TypeError", <<"not an entry object">>)

\* line 174: new Set(value[2])
NewSet(x, heap) ==
  CASE x \in {Undef, Null} -> Return(SetV(<<>>), heap)
    [] IsArr(x) -> Return(SetV(SetInsertAll(x[2], <<>>)), heap)
    [] OTHER -> Throw(heap, "TypeError", <<"not iterable">>)

\* (faulty variant: an unknown tag yields undefined instead of a throw)
CustomSkipLookup(tag, payload, heap, table) ==
  IF IsStr(tag) /\ tag[2] \in Tags /\ table[tag[2]] # NoEntry
  THEN Return(DeserializeHook(table[tag[2]], payload), heap)
  ELSE Return(Undef, heap)
\* lines 176-181: the registry lookup
CustomLookup(tag, payload, heap, table) ==
  IF IsStr(tag) /\ tag[2] \in Tags /\ table[tag[2]] # NoEntry
  THEN Return(DeserializeHook(table[tag[2]], payload), heap)
  ELSE Throw(heap, "Error", <<"Invalid or unknown tag: ", IF IsStr(tag) THEN tag[2] ELSE "undefined">>)

\* (faulty variant: the name is not restored)
KeepName(heap, id, name) == heap
\* lines 186-188: restore the name the native clone does not keep
RestoreName(heap, id, name) ==
  IF IsStr(name) /\ heap[id].name # name[2] THEN [heap EXCEPT ![id].name = name[2]] ELSE heap

RECURSIVE deserializer(_, _, _)
RECURSIVE DesReviver(_, _)
RECURSIVE DesReviveItems(_, _)
RECURSIVE DesReviveProps(_, _)

DesReviveItems(items, d) ==
  IF AllPrimitive(items) THEN Return(items, d.heap)
  ELSE LET h == DesReviver(Head(items), d)
       IN IF ~h.ok THEN h
          ELSE LET t == DesReviveItems(Tail(items), [d EXCEPT !.heap = h.heap])
               IN IF ~t.ok THEN t ELSE Return(<<h.v>> \o t.v, t.heap)

DesReviveProps(props, d) ==
  IF AllPrimitiveProps(props) THEN Return(props, d.heap)
  ELSE LET h == DesReviver(Head(props)[2], d)
       IN IF ~h.ok THEN h
          ELSE LET t == DesReviveProps(Tail(props), [d EXCEPT !.heap = h.heap])
               IN IF ~t.ok THEN t
                  ELSE Return(<< <<Head(props)[1], h.v>> >> \o t.v, t.heap)

\* lines 185-193: case '_err'
DesError(e, name, heap, table) ==
  IF ~IsErr(e) THEN Throw(heap, "TypeError", <<"not an object">>)
  ELSE LET id == e[2]
           h1 == RestoreName(heap, id, name)
           nested == deserializer(h1[id].cause, h1, table)
       IN IF ~Truthy(h1[id].cause) THEN Return(e, h1)
          ELSE IF ~nested.ok THEN nested
          ELSE Return(e, [nested.heap EXCEPT ![id].cause = nested.v])

\* lines 159-215: the reviver applied to a value whose children are revived
DesTagged(v, heap, d) ==
  CASE At(v, 1) = Str("_") -> Return(UnescapeArray(v[2]), heap)
    [] At(v, 1) = Str("Map") -> NewMap(At(v, 2), heap)
    [] At(v, 1) = Str("Set") -> NewSet(At(v, 2), heap)
    [] At(v, 1) = Str("_custom") -> CustomLookup(At(v, 2), At(v, 3), heap, d.table)
    [] At(v, 1) = Str("_ref") -> Return(VerbatimAt(d.verbatim, At(v, 2)), heap)
    [] At(v, 1) = Str("_err") -> DesError(At(v, 2), At(v, 3), heap, d.table)
    [] At(v, 1) = Str("_fn") -> Return(Proxy(At(v, 2)), heap)
    [] OTHER -> Return(v, heap)

\* lines 158-216: JSON.parse's bottom-up walk with the reviver
DesReviver(value, d) ==
  CASE IsArr(value) ->
         LET c == DesReviveItems(value[2], d)
             v == Arr(DeleteUndefItems(c.v))
         IN IF ~c.ok THEN c
            ELSE IF At(v, 0) = Sentinel THEN DesTagged(v, c.heap, d)
            ELSE Return(v, c.heap)
    [] IsObj(value) ->
         LET c == DesReviveProps(value[2], d)
         IN IF ~c.ok THEN c ELSE Return(Obj(DeleteUndefProps(c.v)), c.heap)
    [] OTHER -> Return(value, d.heap)

\* lines 146-217: deserializer(data) with the registry `table`
deserializer(data, heap, table) ==
  IF IsUnwritable(data) THEN Throw(heap, "SyntaxError", <<"not valid JSON">>)
  ELSE LET r == DesReplacer(data, <<>>)
       IN DesReviver(r.v, [heap |-> heap, verbatim |-> r.verbatim, table |-> table])

\* ------------------------------------------------- the host's deep copy
\* structuredClone / postMessage keep an Error's name only when it is one of
\* the standard names, and set it to "Error" otherwise
StandardNames == {"Error", "EvalError", "RangeError", "ReferenceError",
                  "SyntaxError", "TypeError", "URIError"}
ClonedName(name) == IF name \in StandardNames THEN name ELSE "Error"

RECURSIVE CloneGraph(_, _, _, _)
RECURSIVE CloneItems(_, _, _, _)
RECURSIVE CloneProps(_, _, _, _)
RECURSIVE CloneEntries(_, _, _, _)

\* the outcome of copying one value: memo pairs each Error already copied
\* with its copy, so that an object met twice is copied once
Cloned(v, heap, memo) == [ok |-> TRUE, v |-> v, heap |-> heap, memo |-> memo]

CloneItems(items, heap, transfer, memo) ==
  IF AllPrimitive(items) THEN Cloned(items, heap, memo)
  ELSE LET h == CloneGraph(Head(items), heap, transfer, memo)
       IN IF ~h.ok THEN h
          ELSE LET t == CloneItems(Tail(items), h.heap, transfer, h.memo)
               IN IF ~t.ok THEN t ELSE Cloned(<<h.v>> \o t.v, t.heap, t.memo)

CloneProps(props, heap, transfer, memo) ==
  IF AllPrimitiveProps(props) THEN Cloned(props, heap, memo)
  ELSE LET v == CloneGraph(Head(props)[2], heap, transfer, memo)
       IN IF ~v.ok THEN v
          ELSE LET t == CloneProps(Tail(props), v.heap, transfer, v.memo)
               IN IF ~t.ok THEN t
                  ELSE Cloned(<< <<Head(props)[1], v.v>> >> \o t.v, t.heap, t.memo)

CloneEntries(entries, heap, transfer, memo) ==
  IF Len(entries) = 0 THEN Cloned(<<>>, heap, memo)
  ELSE LET k == CloneGraph(Head(entries)[1], heap, transfer, memo)
       IN IF ~k.ok THEN k
          ELSE LET v == CloneGraph(Head(entries)[2], k.heap, transfer, k.memo)
               IN IF ~v.ok THEN v
                  ELSE LET t == CloneEntries(Tail(entries), v.heap, transfer, v.memo)
                       IN IF ~t.ok THEN t
                          ELSE Cloned(<< <<k.v, v.v>> >> \o t.v, t.heap, t.memo)

\* the structured clone of value, moving the ports listed in transfer; an
\* object that can neither be copied nor is listed raises DataCloneError
CloneGraph(value, heap, transfer, memo) ==
  CASE Kind(value) \in {"arr", "Set"} ->
         LET r == CloneItems(value[2], heap, transfer, memo)
         IN IF ~r.ok THEN r ELSE Cloned(<<Kind(value), r.v>>, r.heap, r.memo)
    [] Kind(value) = "obj" ->
         LET r == CloneProps(value[2], heap, transfer, memo)
         IN IF ~r.ok THEN r ELSE Cloned(Obj(r.v), r.heap, r.memo)
    [] Kind(value) = "Map" ->
         LET r == CloneEntries(value[2], heap, transfer, memo)
         IN IF ~r.ok THEN r ELSE Cloned(MapV(r.v), r.heap, r.memo)
    [] IsErr(value) ->
         IF \E i \in DOMAIN memo : memo[i][1] = value[2]
         THEN Cloned(Err(memo[CHOOSE i \in DOMAIN memo : memo[i][1] = value[2]][2]),
                     heap, memo)
         ELSE LET old == heap[value[2]]
                  c == CloneGraph(old.cause, heap, transfer, memo)
              IN IF ~c.ok THEN c
                 ELSE Cloned(Err(Len(c.heap) + 1),
                             Append(c.heap, [name |-> ClonedName(old.name),
                                             msg |-> old.msg, cause |-> c.v]),
                             Append(c.memo, <<value[2], Len(c.heap) + 1>>))
    [] IsPort(value) ->
         IF value \in transfer THEN Cloned(value, heap, memo)
         ELSE Throw(heap, "DataCloneError", <<"port not transferred">>)
    [] IsCallable(value) ->
         Throw(heap, "DataCloneError", <<"could not be cloned">>)
    [] Kind(value) = "custom" ->
         \* an instance is copied as a plain object: its state, not its class
         LET r == CloneGraph(value[3], heap, transfer, memo)
         IN IF ~r.ok THEN r ELSE Cloned(Obj(<< <<"state", r.v>> >>), r.heap, r.memo)
    [] OTHER -> Cloned(value, heap, memo)

\* structuredClone / postMessage of one message
Dropmemo(r) == [ok |-> r.ok, v |-> r.v, heap |-> r.heap]
Clone(value, heap, transfer) == Dropmemo(CloneGraph(value, heap, transfer, <<>>))

\* the copy the host makes of a serializer result, moving its transferables
Transfer(s) == Clone(s.data, s.heap, s.transferables)

\* --------------------------------------------------------- deep equality
RECURSIVE Deref(_, _)
\* the value with every Error replaced by its content, for deep comparison
Deref(value, heap) ==
  CASE Kind(value) \in {"arr", "Set"} ->
         <<Kind(value), [i \in DOMAIN value[2] |-> Deref(value[2][i], heap)]>>
    [] Kind(value) = "obj" ->
         Obj([i \in DOMAIN value[2] |-> <<value[2][i][1], Deref(value[2][i][2], heap)>>])
    [] Kind(value) = "Map" ->
         MapV([i \in DOMAIN value[2] |->
                 <<Deref(value[2][i][1], heap), Deref(value[2][i][2], heap)>>])
    [] Kind(value) = "custom" -> Custom(value[2], Deref(value[3], heap))
    [] IsErr(value) ->
         <<"error", heap[value[2]].name, heap[value[2]].msg,
           Deref(heap[value[2]].cause, heap)>>
    [] OTHER -> value

RECURSIVE Parts(_, _)
\* every value reachable from value (through Error causes too), itself included
Parts(value, heap) ==
  {value} \cup
  CASE Kind(value) \in {"arr", "Set"} ->
         UNION {Parts(value[2][i], heap) : i \in DOMAIN value[2]}
    [] Kind(value) = "obj" ->
         UNION {Parts(value[2][i][2], heap) : i \in DOMAIN value[2]}
    [] Kind(value) = "Map" ->
         UNION {Parts(value[2][i][1], heap) \cup Parts(value[2][i][2], heap) :
                  i \in DOMAIN value[2]}
    [] Kind(value) = "custom" -> Parts(value[3], heap)
    [] IsErr(value) -> Parts(heap[value[2]].cause, heap)
    [] OTHER -> {}

\* ---------------------------------------------------------------- inputs
\* how many containers are wrapped around a base value
MaxDepth == 2

\* user functions, by behaviour: echo returns its first argument, later
\* returns a promise fulfilled with it, raise throws it, fail returns a
\* promise rejected with it, report returns an Error whose cause is a
\* function
Fns == {"echo", "later", "raise", "fail", "report"}

\* the Error objects the application holds before any call
InitHeap ==
  << [name |-> "TypeError", msg |-> <<"m1">>, cause |-> Undef],
     [name |-> "MyErr", msg |-> <<"m2">>, cause |-> Str("why")],
     [name |-> "OuterErr", msg |-> <<"m3">>, cause |-> Err(2)],
     [name |-> "RangeError", msg |-> <<"m4">>, cause |-> Arr(<<Sentinel, Sentinel>>)],
     [name |-> "CbErr", msg |-> <<"m5">>, cause |-> Fn("echo")] >>

Atoms == {Null, Undef, Bool(FALSE), Num(1), Sentinel, Str("a")}

\* user arrays that start with the sentinel, among them the exact shapes of
\* the internal tags
SentinelArrays ==
  { Arr(<<Sentinel>>),
    Arr(<<Sentinel, Sentinel>>),
    Arr(<<Sentinel, Sentinel, Sentinel>>),
    Arr(<<Sentinel, Str("Map"), Arr(<<>>)>>),
    Arr(<<Sentinel, Str("Set"), Arr(<<Str("a")>>)>>),
    Arr(<<Sentinel, Str("_ref"), Num(0)>>),
    Arr(<<Sentinel, Str("_err"), Str("a"), Str("n")>>),
    Arr(<<Sentinel, Str("_fn"), Str("a")>>),
    Arr(<<Sentinel, Str("_custom"), Str("T"), Str("a")>>),
    Arr(<<Sentinel, Str("_custom"), Str("V"), Str("a")>>) }

BaseValues ==
  Atoms \cup SentinelArrays \cup {Arr(<<>>), Obj(<<>>), Fn("echo")}
    \cup {Err(i) : i \in DOMAIN InitHeap}

\* the containers a value can sit in
Wrap(v) ==
  { Arr(<<v>>),
    Arr(<<Str("a"), v>>),
    Arr(<<Sentinel, v>>),
    Obj(<< <<"k", v>> >>),
    MapV(<< <<Str("a"), v>> >>),
    MapV(<< <<v, Str("a")>> >>),
    SetV(<<v>>),
    Custom("T1", v) }
    \cup (IF v = Sentinel THEN {} ELSE {SetV(<<Sentinel, v>>)})

RECURSIVE Values(_)
Values(depth) ==
  IF depth = 0 THEN BaseValues
  ELSE Values(depth - 1) \cup UNION {Wrap(v) : v \in Values(depth - 1)}

\* the same object referenced at two positions of one array: an Error
\* carrying a cause, an array starting with '_'
Twice == {Arr(<<v, v>>) : v \in SentinelArrays \cup {Err(2), Err(4)}}

\* the values given to serializer
Inputs == Values(MaxDepth) \cup Twice

\* the registry of a context in which T1 and U1 were registered
FullTable == [t \in Tags |-> IF t = "T" THEN "T1" ELSE "U1"]

VARIABLES
  pc,                 \* where the application is in encode / copy / decode
  input,              \* the value given to serializer
  heap,               \* the Error objects
  channels,           \* the MessageChannels created so far
  data,               \* serializer's result: data
  transferables,      \* serializer's result: transferables
  revokables,         \* serializer's result: revokables
  wire,               \* what the receiving side hands to deserializer
  output,             \* deserializer's outcome: [ok, v]
  deserializerTable,  \* the registry (line 143)
  registerLog,        \* history: the arguments of the register calls so far
  inbox,              \* messages posted to a port and not yet delivered
  closed,             \* the channels whose retained endpoint was closed
  calls,              \* the promises returned by proxy calls
  running,            \* handler invocations awaiting the function's promise
  invoked,            \* history: the invocations of exported functions
  diag                \* how many times the handler called console.error

bridgeVars == <<inbox, closed, calls, running, invoked, diag>>
vars == <<pc, input, heap, channels, data, transferables, revokables, wire,
          output, deserializerTable, registerLog, inbox, closed, calls,
          running, invoked, diag>>

\* nothing registered by a call, nothing bridged yet
NoBridge ==
  /\ registerLog = <<>>
  /\ inbox = <<>>
  /\ closed = {}
  /\ calls = <<>>
  /\ running = {}
  /\ invoked = <<>>
  /\ diag = 0

NoOutput == [ok |-> TRUE, v |-> Undef]

Init ==
  /\ pc = "start"
  /\ input \in Inputs
  /\ heap = InitHeap
  /\ channels = <<>>
  /\ data = Undef
  /\ transferables = {}
  /\ revokables = {}
  /\ wire = Undef
  /\ output = NoOutput
  /\ deserializerTable = FullTable
  /\ NoBridge

\* serializer returned {data, transferables, revokables}
Serialized(r) ==
  /\ data' = r.data
  /\ wire' = r.data
  /\ heap' = r.heap
  /\ channels' = r.channels
  /\ transferables' = r.transferables
  /\ revokables' = r.revokables

\* the application calls serializer(input)
CallSerializer ==
  /\ pc = "start"
  /\ Serialized(serializer(input, heap, channels))
  /\ pc' = "serialized"
  /\ UNCHANGED <<input, output, deserializerTable, registerLog, bridgeVars>>

\* the application calls serializer(input) a second time
CallSerializerAgain ==
  /\ pc = "serialized"
  /\ Serialized(serializer(input, heap, channels))
  /\ pc' = "serializedAgain"
  /\ UNCHANGED <<input, output, deserializerTable, registerLog, bridgeVars>>

Copied(r) ==
  /\ heap' = r.heap
  /\ wire' = r.v
  /\ pc' = IF r.ok THEN "cloned" ELSE "cloneFailed"

\* the host copies data to the receiving side, moving the transferables
HostClone ==
  /\ pc = "serialized"
  /\ Copied(Clone(data, heap, transferables))
  /\ UNCHANGED <<input, channels, data, transferables, revokables, output,
                 deserializerTable, registerLog, bridgeVars>>

\* deserializer returned or threw
Decoded(r) ==
  /\ heap' = r.heap
  /\ output' = [ok |-> r.ok, v |-> r.v]

\* the application calls deserializer on what it received (or, as the
\* repository's test does, directly on serializer's data)
CallDeserializer ==
  /\ pc \in {"serialized", "cloned", "serializedAgain"}
  /\ Decoded(deserializer(wire, heap, deserializerTable))
  /\ pc' = CASE pc = "serialized" -> "decoded"
            [] pc = "cloned" -> "decodedCopy"
            [] OTHER -> "decodedAgain"
  /\ UNCHANGED <<input, channels, data, transferables, revokables, wire,
                 deserializerTable, registerLog, bridgeVars>>

Next == CallSerializer \/ CallSerializerAgain \/ HostClone \/ CallDeserializer

Spec == Init /\ [][Next]_vars

\* ------------------------------------------------------ codec properties
\* no function anywhere in the graph of v (Error causes included)
FnFree(v) == \A p \in Parts(v, InitHeap) : ~IsCallable(p)
HasSentinelArray(v) == \E p \in Parts(v, InitHeap) : IsArr(p) /\ At(p, 0) = Sentinel
HasError(v) == \E p \in Parts(v, InitHeap) : IsErr(p)

RECURSIVE Loose(_)
RECURSIVE LooseProps(_)
LooseProps(props) ==
  IF Len(props) = 0 THEN <<>>
  ELSE (IF Head(props)[2] = Undef THEN <<>>
        ELSE << <<Head(props)[1], Loose(Head(props)[2])>> >>) \o LooseProps(Tail(props))
\* a dereferenced value in which a slot holding undefined and an absent slot
\* are the same thing (an array keeps its length, an object loses the key)
Loose(v) ==
  CASE Kind(v) = "arr" ->
         Arr([i \in DOMAIN v[2] |-> IF v[2][i] = Undef THEN Hole ELSE Loose(v[2][i])])
    [] Kind(v) = "obj" -> Obj(LooseProps(v[2]))
    [] Kind(v) = "Set" -> SetV([i \in DOMAIN v[2] |-> Loose(v[2][i])])
    [] Kind(v) = "Map" ->
         MapV([i \in DOMAIN v[2] |-> <<Loose(v[2][i][1]), Loose(v[2][i][2])>>])
    [] Kind(v) = "custom" -> Custom(v[2], Loose(v[3]))
    [] Kind(v) = "error" -> <<"error", v[2], v[3], Loose(v[4])>>
    [] OTHER -> v

\* C1: for every function-free input (plain data, undefined, Map, Set,
\* arrays starting with '_', registered custom objects, Errors with or
\* without a cause), deserializer(serializer(v).data) returns normally a
\* value deep-equal to v: same keys, same lengths, same container kinds.
C1_RoundTrip ==
  (pc = "decoded" /\ FnFree(input)) =>
    (output.ok /\ Deref(output.v, heap) = Deref(input, InitHeap))

RECURSIVE FnCount(_, _)
RECURSIVE FnCountAll(_, _)
FnCountAll(vs, h) ==
  IF Len(vs) = 0 THEN 0 ELSE FnCount(Head(vs), h) + FnCountAll(Tail(vs), h)
FnCount(v, h) ==
  CASE IsCallable(v) -> 1
    [] Kind(v) \in {"arr", "Set"} -> FnCountAll(v[2], h)
    [] Kind(v) = "obj" -> FnCountAll([i \in DOMAIN v[2] |-> v[2][i][2]], h)
    [] Kind(v) = "Map" ->
         FnCountAll([i \in DOMAIN v[2] |-> v[2][i][1]], h)
           + FnCountAll([i \in DOMAIN v[2] |-> v[2][i][2]], h)
    [] Kind(v) = "custom" -> FnCount(v[3], h)
    [] IsErr(v) -> FnCount(h[v[2]].cause, h)
    [] OTHER -> 0

\* the endpoints carried by the '_fn' tags of an encoded value
FnTagPorts(v, h) ==
  {At(p, 2) : p \in {q \in Parts(v, h) :
                        IsArr(q) /\ At(q, 0) = Sentinel /\ At(q, 1) = Str("_fn")}}

\* C7: for every function serializer encodes anywhere in the graph (inside
\* the cause of an Error too) the far endpoint of its '_fn' tag is in
\* transferables and the retained endpoint is in revokables, one of each per
\* encoded function.
C7_FnEndpointsReported ==
  pc = "serialized" =>
    /\ \A p \in FnTagPorts(data, heap) :
          p \in transferables /\ Port(p[2], 1) \in revokables
    /\ Cardinality(transferables) = FnCount(input, InitHeap)
    /\ Cardinality(revokables) = FnCount(input, InitHeap)

C10_InputNotModified ==
  pc = "serialized" => heap = InitHeap

\* ------------------------------------------------------------ registry
\* how many register calls a run makes
MaxRegisters == 2

\* what the sending side encodes: values holding instances of custom classes
RegistryInputs ==
  { Custom("T1", Num(1)),
    Arr(<<Str("a"), Custom("T1", Num(1))>>),
    Obj(<< <<"k", Custom("U1", Str("a"))>> >>),
    MapV(<< <<Str("a"), Custom("T1", Arr(<<Sentinel, Str("_custom"), Str("U")>>))>> >>),
    SetV(<<Custom("T2", Undef)>>),
    Custom("T1", Custom("U1", Null)),
    Arr(<<Custom("U1", Num(1)), Custom("T1", Num(1))>>) }

\* a receiving context whose registry is still empty
InitRegistry ==
  /\ pc = "idle"
  /\ input = Undef
  /\ heap = InitHeap
  /\ channels = <<>>
  /\ data = Undef
  /\ transferables = {}
  /\ revokables = {}
  /\ wire = Undef
  /\ output = NoOutput
  /\ deserializerTable = EmptyTable
  /\ NoBridge

\* the application calls deserializer.register(ctor)
Register(ctor) ==
  /\ Len(registerLog) < MaxRegisters
  /\ deserializerTable' = register(deserializerTable, ctor)
  /\ registerLog' = Append(registerLog, ctor)
  /\ pc' = "idle"
  /\ UNCHANGED <<input, heap, channels, data, transferables, revokables, wire,
                 output, bridgeVars>>

Arrived(v, c) ==
  /\ c.ok
  /\ input' = v
  /\ wire' = c.v
  /\ Decoded(deserializer(c.v, c.heap, deserializerTable))

\* a payload, encoded from v by a sender and copied by the host, arrives and
\* the application calls deserializer on it (the Errors of earlier decodes
\* are no longer referenced)
Decode(v) ==
  /\ Arrived(v, Transfer(serializer(v, InitHeap, <<>>)))
  /\ pc' = "received"
  /\ UNCHANGED <<channels, data, transferables, revokables,
                 deserializerTable, registerLog, bridgeVars>>

NextRegistry ==
  \/ \E ctor \in RegisterArgs : Register(ctor)
  \/ \E v \in RegistryInputs : Decode(v)

SpecRegistry == InitRegistry /\ [][NextRegistry]_vars

\* the constructor of the last register call that named a class with this
\* tag, read off the history
RECURSIVE LastRegistered(_, _)
LastRegistered(log, tag) ==
  IF Len(log) = 0 THEN NoEntry
  ELSE IF log[Len(log)] \in Ctors /\ CtorTag(log[Len(log)]) = tag THEN log[Len(log)]
  ELSE LastRegistered(SubSeq(log, 1, Len(log) - 1), tag)

CustomTags(v) == {CtorTag(p[2]) : p \in {q \in Parts(v, InitHeap) : Kind(q) = "custom"}}

\* v with every custom instance rebuilt by the class last registered for its tag
RECURSIVE Rebuilt(_, _)
Rebuilt(v, log) ==
  CASE Kind(v) \in {"arr", "Set"} -> <<Kind(v), [i \in DOMAIN v[2] |-> Rebuilt(v[2][i], log)]>>
    [] Kind(v) = "obj" -> Obj([i \in DOMAIN v[2] |-> <<v[2][i][1], Rebuilt(v[2][i][2], log)>>])
    [] Kind(v) = "Map" ->
         MapV([i \in DOMAIN v[2] |-> <<Rebuilt(v[2][i][1], log), Rebuilt(v[2][i][2], log)>>])
    [] Kind(v) = "custom" -> Custom(LastRegistered(log, CtorTag(v[2])), Rebuilt(v[3], log))
    [] OTHER -> v

\* C3: after any sequence of register and decode calls, decoding a payload
\* that holds a custom tag no register call has named throws the
\* unknown-tag Error (no value is returned, no entry dropped); once every
\* tag of the payload has been registered, the same payload decodes without
\* throwing to the value in which each tagged entry is what the reconstruct
\* hook of the class registered for its tag makes of the decoded payload,
\* whatever decodes and register calls happened in between.
C3_RegistryEnforced ==
  pc = "received" =>
    IF \E t \in CustomTags(input) : LastRegistered(registerLog, t) = NoEntry
    THEN /\ ~output.ok
         /\ IsErr(output.v)
         /\ heap[output.v[2]].name = "Error"
         /\ heap[output.v[2]].msg[1] = "Invalid or unknown tag: "
         /\ LastRegistered(registerLog, heap[output.v[2]].msg[2]) = NoEntry
    ELSE /\ output.ok
         /\ output.v = Rebuilt(input, registerLog)

C3_Witness ==
  /\ pc = "received"
  /\ registerLog = <<"NoHook", "T2">>
  /\ input = MapV(<< <<Str("a"), Custom("T1", Arr(<<Sentinel, Str("_custom"), Str("U")>>))>> >>)
  /\ output.ok
  /\ output.v = MapV(<< <<Str("a"), Custom("T2", Arr(<<Sentinel, Str("_custom"), Str("U")>>))>> >>)

\* ------------------------------------------------------ function bridge
\* how many proxy calls a run makes
MaxCalls == 2

\* a message posted on a port: where it will be delivered, its (copied)
\* data, and, as history, the proxy call it stems from
Message(channel, msgData, from) == [to |-> channel, data |-> msgData, from |-> from]

\* the function a callable stands for: a proxy stands for what is behind its port
RECURSIVE Origin(_, _)
Origin(value, chans) ==
  IF Kind(value) = "proxy" THEN Origin(chans[value[2][2]][2], chans) ELSE value

RECURSIVE View(_, _, _)
\* the value as deep comparison sees it: Errors by content, proxies by the
\* function they call
View(value, h, chans) ==
  CASE Kind(value) \in {"arr", "Set"} ->
         <<Kind(value), [i \in DOMAIN value[2] |-> View(value[2][i], h, chans)]>>
    [] Kind(value) = "obj" ->
         Obj([i \in DOMAIN value[2] |-> <<value[2][i][1], View(value[2][i][2], h, chans)>>])
    [] Kind(value) = "Map" ->
         MapV([i \in DOMAIN value[2] |->
                 <<View(value[2][i][1], h, chans), View(value[2][i][2], h, chans)>>])
    [] Kind(value) = "custom" -> Custom(value[2], View(value[3], h, chans))
    [] IsErr(value) ->
         <<"error", h[value[2]].name, h[value[2]].msg, View(h[value[2]].cause, h, chans)>>
    [] IsCallable(value) -> Origin(value, chans)
    [] OTHER -> value

\* the outcome of postMessage([ok, data], transferables) on the reply port:
\* s is serializer's result, c the host's copy of the message; postMessage
\* throws when the message cannot be copied
Posted(s, c, replyPort, from, st) ==
  [ok |-> c.ok,
   err |-> c.v,
   heap |-> c.heap,
   channels |-> s.channels,
   inbox |-> IF c.ok THEN Append(st.inbox, Message(replyPort[2], c.v, from))
             ELSE st.inbox,
   diag |-> st.diag]

PostEncoded(ok, s, replyPort, from, st) ==
  Posted(s, Clone(Arr(<<Bool(ok), s.data>>), s.heap, s.transferables),
         replyPort, from, st)

\* lines 106-107 and 109-110: encode the outcome and post it on the reply
\* port; st is [heap, channels, inbox, diag]
HandlerPost(ok, result, replyPort, from, st) ==
  PostEncoded(ok, serializer(result, st.heap, st.channels), replyPort, from, st)

\* lines 104-107: the body of the inner try, from the point where the
\* function's outcome is known: a returned (or fulfilled) value is encoded
\* and posted, a throw leaves the body, a pending promise suspends it
TryBody(outcome, replyPort, from, st) ==
  IF outcome.kind = "return"
  THEN HandlerPost(TRUE, outcome.v, replyPort, from, st)
  ELSE [ok |-> outcome.kind # "throw", err |-> outcome.v, heap |-> st.heap,
        channels |-> st.channels, inbox |-> st.inbox, diag |-> st.diag]

\* lines 112-114: the outer catch reports with console.error
OuterCatch(p) == IF p.ok THEN p ELSE [p EXCEPT !.diag = @ + 1]

\* (faulty variant: no inner catch, a throw goes to the outer one)
SkipInnerCatch(p, replyPort, from) == OuterCatch(p)
\* (faulty variant: the relay is not confined to a failure of the body)
RelayAlways(p, replyPort, from) == OuterCatch(HandlerPost(FALSE, p.err, replyPort, from, p))
\* lines 108-111: the inner catch relays what the body threw
InnerCatch(p, replyPort, from) ==
  IF p.ok THEN p ELSE OuterCatch(HandlerPost(FALSE, p.err, replyPort, from, p))

\* lines 103-115
Handler(outcome, replyPort, from, st) ==
  InnerCatch(TryBody(outcome, replyPort, from, st), replyPort, from)

\* line 105: value(...args) for the functions the application exported:
\* echo returns its arguments, raise throws its first argument, later and
\* fail return a promise settled afterwards, report returns an Error of the
\* exporting side whose cause holds a function
Invoke(value, args) ==
  CASE value = Fn("echo") -> [kind |-> "return", v |-> Arr(args)]
    [] value = Fn("report") -> [kind |-> "return", v |-> Err(5)]
    [] value = Fn("raise") -> [kind |-> "throw", v |-> At(Arr(args), 0)]
    [] value \in {Fn("later"), Fn("fail")} -> [kind |-> "promise", v |-> At(Arr(args), 0)]
    [] OTHER -> [kind |-> "return", v |-> Undef]

\* (faulty variant: the proxy calls share one reply channel)
SharedReplyChannel(chans) ==
  IF \E c \in DOMAIN chans : chans[c][1] = "reply"
  THEN CHOOSE c \in DOMAIN chans : chans[c][1] = "reply"
  ELSE Len(chans) + 1
\* line 199: each call of a proxy makes its own reply channel
ReplyChannelFor(chans) == Len(chans) + 1

\* (faulty variant: every reply rejects)
SettleAlwaysRejected(ok) == "rejected"
\* lines 203-207: the first element of the reply selects resolve or reject
SettleState(ok) == IF Truthy(ok) THEN "resolved" ELSE "rejected"

\* the message at position n is the oldest one waiting for its port
IsNextFor(n, box) == \A j \in 1..(n - 1) : box[j].to # box[n].to
Without(box, n) == SubSeq(box, 1, n - 1) \o SubSeq(box, n + 1, Len(box))

\* the property of a plain object
RECURSIVE PropOf(_, _)
PropOf(props, key) ==
  IF Len(props) = 0 THEN Undef
  ELSE IF Head(props)[1] = key THEN Head(props)[2] ELSE PropOf(Tail(props), key)

\* what the sending side exports
Exported ==
  Obj(<< <<"echo", Fn("echo")>>, <<"later", Fn("later")>>,
         <<"raise", Fn("raise")>>, <<"fail", Fn("fail")>>,
         <<"report", Fn("report")>> >>)

\* the calls the receiving side can make on the proxies
Script ==
  << [fn |-> "later", args |-> Arr(<<Arr(<<Num(1), Str("x")>>), Null>>)],
     [fn |-> "later", args |-> Arr(<<MapV(<< <<Custom("T1", Num(2)), Arr(<<Sentinel, Sentinel>>)>> >>)>>)],
     [fn |-> "raise", args |-> Arr(<<Err(2)>>)],
     [fn |-> "fail", args |-> Arr(<<Str("no"), Num(1)>>)],
     [fn |-> "echo", args |-> Arr(<<Num(1), Custom("U1", Num(1))>>)],
     [fn |-> "echo", args |-> Arr(<<Fn("cb")>>)],
     [fn |-> "report", args |-> Arr(<<>>)] >>

\* both contexts registered T1 and nothing for tag U
BridgeTable == [t \in Tags |-> IF t = "T" THEN "T1" ELSE NoEntry]

InitBridge ==
  /\ pc = "start"
  /\ input = Exported
  /\ heap = InitHeap
  /\ channels = <<>>
  /\ data = Undef
  /\ transferables = {}
  /\ revokables = {}
  /\ wire = Undef
  /\ output = NoOutput
  /\ deserializerTable = BridgeTable
  /\ NoBridge

\* lines 209: mp.postMessage([mc.port2, data], [mc.port2, ...transferables]);
\* a throw in the executor rejects the promise
Sent(k, mp, rc, s, c) ==
  /\ heap' = c.heap
  /\ channels' = s.channels
  /\ inbox' = IF c.ok THEN Append(inbox, Message(mp[2], c.v, Len(calls) + 1)) ELSE inbox
  /\ calls' = Append(calls,
                [k |-> k, reply |-> rc,
                 state |-> IF c.ok THEN "pending" ELSE "rejected",
                 v |-> IF c.ok THEN Undef ELSE c.v,
                 by |-> IF c.ok THEN 0 ELSE Len(calls) + 1])

Encoded(k, mp, rc, s) ==
  Sent(k, mp, rc, s,
       Clone(Arr(<<Port(rc, 2), s.data>>), s.heap, s.transferables \cup {Port(rc, 2)}))

\* lines 199 and 202: the reply channel and its onmessage
WithReplyChannel(chans, rc, id) ==
  IF rc > Len(chans) THEN Append(chans, <<"reply", id>>)
  ELSE [chans EXCEPT ![rc] = <<"reply", id>>]

\* lines 197-211: the receiving side calls the proxy of Script[k].fn with
\* Script[k].args; the promise executor runs at once
ProxyCall(k) ==
  /\ pc = "decodedCopy"
  /\ output.ok
  /\ Len(calls) < MaxCalls
  /\ Encoded(k, PropOf(output.v[2], Script[k].fn)[2], ReplyChannelFor(channels),
             serializer(Script[k].args, heap,
                        WithReplyChannel(channels, ReplyChannelFor(channels),
                                         Len(calls) + 1)))
  /\ UNCHANGED <<pc, input, data, transferables, revokables, wire, output,
                 deserializerTable, registerLog, closed, running, invoked, diag>>

\* the handler has run up to its end or up to its await
Finish(fin) ==
  /\ heap' = fin.heap
  /\ channels' = fin.channels
  /\ inbox' = fin.inbox
  /\ diag' = fin.diag

\* line 105: the decoded arguments are spread into the call
Called(ev, d, outcome, rest) ==
  /\ Finish(Handler(outcome, At(ev.data, 0), ev.from,
                    [heap |-> d.heap, channels |-> channels, inbox |-> rest,
                     diag |-> diag]))
  /\ invoked' = IF d.ok
                THEN Append(invoked, [fn |-> channels[ev.to][2],
                                      args |-> View(Arr(SpreadItems(d.v[2])), d.heap, channels),
                                      from |-> ev.from])
                ELSE invoked
  /\ running' = IF outcome.kind = "promise"
                THEN running \cup {[reply |-> At(ev.data, 0), fn |-> channels[ev.to][2],
                                    arg |-> outcome.v, from |-> ev.from]}
                ELSE running

Received(ev, d, rest) ==
  Called(ev, d,
         IF d.ok THEN Invoke(channels[ev.to][2], SpreadItems(d.v[2]))
         ELSE [kind |-> "throw", v |-> d.v],
         rest)

\* lines 102-115: a request is delivered to the retained endpoint of an
\* exported function (the handler runs up to its await or to its end)
HandlerReceive(n) ==
  /\ n \in DOMAIN inbox
  /\ channels[inbox[n].to][1] = "fn"
  /\ inbox[n].to \notin closed
  /\ IsNextFor(n, inbox)
  /\ Received(inbox[n], deserializer(At(inbox[n].data, 1), heap, deserializerTable),
              Without(inbox, n))
  /\ UNCHANGED <<pc, input, data, transferables, revokables, wire, output,
                 deserializerTable, registerLog, closed, calls>>

\* lines 105-111: the promise the function returned settles and the handler
\* resumes after its await
FnSettle(r) ==
  /\ r \in running
  /\ Finish(Handler([kind |-> IF r.fn = Fn("later") THEN "return" ELSE "throw",
                     v |-> r.arg],
                    r.reply, r.from,
                    [heap |-> heap, channels |-> channels, inbox |-> inbox,
                     diag |-> diag]))
  /\ running' = running \ {r}
  /\ UNCHANGED <<pc, input, data, transferables, revokables, wire, output,
                 deserializerTable, registerLog, closed, calls, invoked>>

\* lines 203-207: resolve or reject with the decoded payload; a promise
\* settles once
Settled(ev, id, d) ==
  /\ heap' = d.heap
  /\ calls' = IF d.ok /\ calls[id].state = "pending"
              THEN [calls EXCEPT ![id].state = SettleState(At(ev.data, 0)),
                                 ![id].v = d.v,
                                 ![id].by = ev.from]
              ELSE calls

\* lines 202-208: a reply is delivered to the proxy's reply port
ReplyDeliver(n) ==
  /\ n \in DOMAIN inbox
  /\ channels[inbox[n].to][1] = "reply"
  /\ IsNextFor(n, inbox)
  /\ Settled(inbox[n], channels[inbox[n].to][2],
             deserializer(At(inbox[n].data, 1), heap, deserializerTable))
  /\ inbox' = Without(inbox, n)
  /\ UNCHANGED <<pc, input, channels, data, transferables, revokables, wire,
                 output, deserializerTable, registerLog, closed, running,
                 invoked, diag>>

\* the sending application closes the endpoints serializer returned to it
\* in revokables; nothing is delivered to a closed endpoint
Revoke ==
  /\ pc = "decodedCopy"
  /\ closed = {}
  /\ closed' = {p[2] : p \in revokables}
  /\ UNCHANGED <<pc, input, heap, channels, data, transferables, revokables,
                 wire, output, deserializerTable, registerLog, inbox, calls,
                 running, invoked, diag>>

NextBridge ==
  \/ CallSerializer
  \/ HostClone
  \/ CallDeserializer
  \/ \E k \in DOMAIN Script : ProxyCall(k)
  \/ \E n \in DOMAIN inbox : HandlerReceive(n)
  \/ \E r \in running : FnSettle(r)
  \/ \E n \in DOMAIN inbox : ReplyDeliver(n)
  \/ Revoke

SpecBridge == InitBridge /\ [][NextBridge]_vars

\* when each of the asynchronous steps can happen
CanReceive ==
  \E n \in DOMAIN inbox :
    channels[inbox[n].to][1] = "fn" /\ inbox[n].to \notin closed /\ IsNextFor(n, inbox)
CanSettle == running # {}
CanDeliver ==
  \E n \in DOMAIN inbox : channels[inbox[n].to][1] = "reply" /\ IsNextFor(n, inbox)

\* the host delivers every posted message to an open port, and the promises
\* of the exported functions settle: weak fairness of the three steps, with
\* their enabling conditions written out
SpecBridgeFair ==
  /\ SpecBridge
  /\ ([]<>~CanReceive \/ []<><<\E n \in DOMAIN inbox : HandlerReceive(n)>>_vars)
  /\ ([]<>~CanSettle \/ []<><<\E r \in running : FnSettle(r)>>_vars)
  /\ ([]<>~CanDeliver \/ []<><<\E n \in DOMAIN inbox : ReplyDeliver(n)>>_vars)

\* ------------------------------------------------------ bridge properties
\* what each call of Script must come to: whether its promise resolves or
\* rejects, and with what (as deep comparison sees it)
Outcome ==
  << [ok |-> TRUE, v |-> Arr(<<Num(1), Str("x")>>)],
     [ok |-> TRUE, v |-> MapV(<< <<Custom("T1", Num(2)), Arr(<<Sentinel, Sentinel>>)>> >>)],
     [ok |-> FALSE, v |-> <<"error", "MyErr", <<"m2">>, Str("why")>>],
     [ok |-> FALSE, v |-> Str("no")],
     [ok |-> FALSE, v |-> <<"error", "Error", <<"Invalid or unknown tag: ", "U">>, Undef>>],
     [ok |-> TRUE, v |-> Arr(<<Fn("cb")>>)],
     [ok |-> FALSE, v |-> <<"error", "DataCloneError", <<"port not transferred">>, Undef>>] >>

Succeeds(k) == Outcome[k].ok
InvocationsOf(i) == {j \in DOMAIN invoked : invoked[j].from = i}
RequestWaiting(i) ==
  \E n \in DOMAIN inbox : inbox[n].from = i /\ channels[inbox[n].to][1] = "fn"
\* the request of call i sits at an endpoint that was closed before delivery
Dropped(i) ==
  \E n \in DOMAIN inbox :
    inbox[n].from = i /\ channels[inbox[n].to][1] = "fn" /\ inbox[n].to \in closed
ReplyPosted(i, ok) ==
  \E n \in DOMAIN inbox :
    /\ inbox[n].from = i
    /\ inbox[n].to = calls[i].reply
    /\ At(inbox[n].data, 0) = Bool(ok)
HandlerDone(i) == ~RequestWaiting(i) /\ ~\E r \in running : r.from = i

C4_Safe(i) ==
  Succeeds(calls[i].k) =>
    /\ Cardinality(InvocationsOf(i)) <= 1
    /\ \A j \in InvocationsOf(i) :
          /\ invoked[j].fn = Fn(Script[calls[i].k].fn)
          /\ invoked[j].args = View(Script[calls[i].k].args, InitHeap, <<>>)
    /\ calls[i].state # "rejected"
    /\ calls[i].state = "resolved" =>
          /\ Cardinality(InvocationsOf(i)) = 1
          /\ View(calls[i].v, heap, channels) = Outcome[calls[i].k].v

C5_Safe(i) ==
  ~Succeeds(calls[i].k) =>
    /\ calls[i].state # "resolved"
    /\ calls[i].state = "rejected" =>
          View(calls[i].v, heap, channels) = Outcome[calls[i].k].v
    /\ calls[i].k = 5 => InvocationsOf(i) = {}
    /\ HandlerDone(i) => (calls[i].state = "rejected" \/ ReplyPosted(i, FALSE))

C6_CallsIsolated ==
  /\ \A i, j \in DOMAIN calls : i # j => calls[i].reply # calls[j].reply
  /\ \A n \in DOMAIN inbox :
        channels[inbox[n].to][1] = "reply" => channels[inbox[n].to][2] = inbox[n].from
  /\ \A i \in DOMAIN calls :
        calls[i].state # "pending" =>
          /\ calls[i].by = i
          /\ (calls[i].state = "resolved") = Outcome[calls[i].k].ok
          /\ View(calls[i].v, heap, channels) = Outcome[calls[i].k].v

\* two calls of the same proxy: the second is settled while the first,
\* made earlier, is still awaiting its function
C6_Witness ==
  /\ Len(calls) = 2
  /\ calls[1].k = 2
  /\ calls[2].k = 1
  /\ calls[1].state = "pending"
  /\ \E r \in running : r.from = 1
  /\ calls[2].state = "resolved"
  /\ calls[2].v = Arr(<<Num(1), Str("x")>>)
  /\ calls[2].by = 2

\* C9: every retained endpoint created for a function (by the exporting
\* serializer call, by a proxy encoding its arguments, by the handler
\* encoding a result or a reason) is in the revokables a caller received.
C9_EndpointsExposed ==
  \A c \in DOMAIN channels : channels[c][1] = "fn" => Port(c, 1) \in revokables

\* ------------------------------------------- shared and repeated values
\* the same Error or array sits at two positions of v
HasShared(v) ==
  \E p \in Parts(v, InitHeap) :
    IsArr(p) /\ Len(p[2]) = 2 /\ p[2][1] = p[2][2] /\ (IsErr(p[2][1]) \/ IsArr(p[2][1]))

\* C11: a value referenced at two positions of the input, or given to
\* serializer in two successive calls, is escaped once: after the one call
\* or the two calls, deserializer returns normally a value deep-equal to
\* the original input at every position (an undefined slot and an absent
\* slot are not told apart here).
C11_EscapedOnce ==
  (/\ pc \in {"decoded", "decodedCopy", "decodedAgain"}
   /\ FnFree(input)
   /\ (pc = "decodedAgain" \/ HasShared(input)))
    => (output.ok /\ Loose(Deref(output.v, heap)) = Loose(Deref(input, InitHeap)))

\* ------------------------------------------------- undefined in place
\* undefined is the value itself, an element of an array, the value of a
\* property, a key or a value of a Map, or a member of a Set of v
HoldsUndefined(v) ==
  \/ v = Undef
  \/ \E p \in Parts(v, InitHeap) :
       \/ Kind(p) \in {"arr", "Set"} /\ \E i \in DOMAIN p[2] : p[2][i] = Undef
       \/ Kind(p) = "obj" /\ \E i \in DOMAIN p[2] : p[2][i][2] = Undef
       \/ Kind(p) = "Map" /\ \E i \in DOMAIN p[2] : Undef \in {p[2][i][1], p[2][i][2]}

\* C12: an undefined at any position (top level, property value, array
\* element, Map key or value, Set member) is there again after decoding:
\* the object still has the property, the array has the same length with
\* the index present, the Map or Set still has the entry.  Decoding returns
\* normally a value equal to the input, absent slots told apart from
\* undefined ones.
C12_UndefinedRestored ==
  (pc \in {"decoded", "decodedCopy"} /\ FnFree(input) /\ HoldsUndefined(input))
    => (output.ok /\ Deref(output.v, heap) = Deref(input, InitHeap))

\* ------------------------------------------------ registry contents
\* the register calls of the history that pass the validation (a function
\* with a string tag and a function reconstruct hook) and name this tag
ValidRegistrations(log, tag) ==
  {i \in DOMAIN log : /\ IsFunction(log[i])
                      /\ HasStringTag(log[i])
                      /\ HasDeserializeHook(log[i])
                      /\ CtorTag(log[i]) = tag}

\* the last of them
MostRecent(log, tag) ==
  CHOOSE i \in ValidRegistrations(log, tag) : \A j \in ValidRegistrations(log, tag) : j <= i

\* C13: after any sequence of register, serializer and deserializer calls
\* the registry maps each tag to the reconstruct hook of the class given to
\* the most recent register call that passed the validation, and has no
\* entry for a tag no such call named: a register call that fails the
\* validation, and every encode or decode (returning or throwing), leaves
\* the registry as it was.
C13_RegistryContents ==
  \A t \in Tags :
    deserializerTable[t] =
      IF ValidRegistrations(registerLog, t) = {} THEN NoEntry
      ELSE registerLog[MostRecent(registerLog, t)]

\* T2 was registered, then a plain object carrying the same tag and a hook
\* was refused, then a decode threw on a tag never registered
C13_Witness ==
  /\ pc = "received"
  /\ registerLog = <<"T2", "NotFn">>
  /\ ~output.ok
  /\ deserializerTable["T"] = "T2"
  /\ deserializerTable["U"] = NoEntry

\* ------------------------------------------------- one reply per request
\* the replies to the request of call i that are posted and not yet delivered
RepliesInFlight(i) ==
  {n \in DOMAIN inbox : inbox[n].from = i /\ inbox[n].to = calls[i].reply}
\* the requests whose handler threw before or while calling the function,
\* whose function failed, or whose [true, data] post threw
Failed(k) == ~Outcome[k].ok

C14_OneReply(i) ==
  /\ Cardinality(RepliesInFlight(i)) + (IF calls[i].state = "pending" THEN 0 ELSE 1) <= 1
  /\ \A n \in RepliesInFlight(i) :
        /\ At(inbox[n].data, 0) \in {Bool(TRUE), Bool(FALSE)}
        /\ At(inbox[n].data, 0) = Bool(FALSE) <=> Failed(calls[i].k)

\* C14: for every request at most one message is posted on its reply
\* port, [true, data] or [false, data] and never both: a reply in flight
\* is the only one, none is in flight once the promise is settled, and it
\* is [false, data] exactly when the function failed or the [true, data]
\* post threw; a settled promise never changes again.
C14_AtMostOneReply ==
  /\ [](\A i \in DOMAIN calls : C14_OneReply(i))
  /\ [][\A i \in DOMAIN calls : calls[i].state # "pending" => calls'[i] = calls[i]]_vars

\* report's result could not be posted, so the handler posted [false, the
\* DataCloneError], the only reply to that request; the other call got its
\* one [true, data]
C14_Witness ==
  /\ Len(calls) = 2
  /\ calls[1].k = 7
  /\ calls[1].state = "rejected"
  /\ IsErr(calls[1].v)
  /\ heap[calls[1].v[2]].name = "DataCloneError"
  /\ calls[2].k = 1
  /\ calls[2].state = "resolved"
  /\ Len(invoked) = 2
  /\ inbox = <<>>
  /\ diag = 0

====
